---- MODULE Spec2Model ----
(***************************************************************************)
(* Model of the deep-research workflow of src/backend: the LangGraph       *)
(* StateGraph built in deepresearch/graph.py over the state schema of      *)
(* deepresearch/models.py, the nodes of deepresearch/nodes.py and the      *)
(* driver run_research/_run_graph of main.py, for ONE thread_id.           *)
(*                                                                         *)
(* The durable part of the state is the latest checkpoint of the thread    *)
(* (values, next, the task list of the pending perform_search superstep    *)
(* with the writes of its finished tasks), the search_results table        *)
(* (cache) and the reports table.  The volatile part is the position of    *)
(* the running process (pc, first_tick) and the in-flight part of tasks.   *)
(***************************************************************************)
EXTENDS Integers, Sequences, FiniteSets, TLC

\* ------------------------------------------------------------------ bounds
MaxTasks == 2          \* longest task list of generate_queries
MaxRounds == 2         \* SEARCH rounds explored per run
MaxK == 1              \* largest MAX_FEEDBACK_LOOPS explored
MaxInvocations == 2    \* run_research calls on the thread (restarts)

Queries == {"q1", "q2"}

\* ------------------------------------------------------- values of fields
\* configurable thread_id of the run
thread_id == "T"

None == "None"
Goal == "g"
Modes == {"human", "auto"}
NoText == << >>

\* Python truthiness of an Optional[str]
Truthy(v) == v # None /\ v # ""

\* str.strip() on the feedback alphabet of the model
Strip(s) == IF s = " " THEN "" ELSE s

VARIABLES
    values,        \* channel values of the latest checkpoint ([] = no checkpoint)
    next,          \* node the latest checkpoint names as next ("" = none)
    tasks,         \* tasks of the pending perform_search superstep
    cache,         \* search_results table: (research_id, query) -> row
    reports,       \* reports table: research_id -> report text
    pc,            \* position of the process in run_research
    first_tick,    \* astream(None) has not run a superstep yet
    cfg,           \* Config.from_env(): feedback_mode, max_feedback_loops
    det,           \* collaborators are deterministic stubs
    outcome,       \* how the last run_research call ended
    retval,        \* value returned by the last normal return
    invocations,   \* run_research calls so far
    calledOn,      \* what the last run_research call found: new, pending, done
    searchRounds,  \* completed perform_search supersteps
    everSatisfied, \* the gap analyst answered SATISFIED at least once
    extCalls,      \* query -> completed search+summarize resolutions
    counterReturned \* largest feedback_loop_count a node returned (0: none)

vars == << values, next, tasks, cache, reports, pc, first_tick, cfg,
           det, outcome, retval, invocations, calledOn, searchRounds,
           everSatisfied, extCalls, counterReturned >>

\* ------------------------------------------------------------ state schema
\* DeepResearchState: the keys of the TypedDict are the channels of the graph
StateKeys == {"query", "report_plan", "serp_queries", "search_results",
              "user_feedback", "final_report"}

EmptyValues == [k \in {} |-> None]

\* dict.get(key, default) on the state handed to a node or a router
StateGet(state, key, default) ==
    IF key \in DOMAIN state THEN state[key] ELSE default

\* search_results is Annotated[..., operator.add]; every other channel keeps
\* the last value written; a key that is not a channel is not written.
ApplyWrites(vals, update) ==
    [k \in StateKeys |->
        IF k \in DOMAIN update
        THEN IF k = "search_results" /\ k \in DOMAIN vals
             THEN vals[k] \o update[k]
             ELSE update[k]
        ELSE vals[k]]

\* initial_state of a new session
InitialState(query, mode) ==
    [query |-> query, report_plan |-> "", serp_queries |-> << >>,
     search_results |-> << >>, user_feedback |-> None,
     feedback_loop_count |-> 0, feedback_mode |-> mode,
     report_pages |-> 5, final_report |-> NoText]

\* the input of astream is written through the channels of the schema
InputValues(input) == [k \in StateKeys \cap DOMAIN input |-> input[k]]

\* the loop counter in the update returned by a node, kept as the largest
\* value returned so far
ReturnedCounter(update, sofar) ==
    IF "feedback_loop_count" \in DOMAIN update
       /\ update["feedback_loop_count"] > sofar
    THEN update["feedback_loop_count"]
    ELSE sofar

\* ----------------------------------------------------------------- routers
\* evaluate_progress with the bound compared inclusively
evaluate_progress_inclusive(state) ==
    LET feedback_mode == StateGet(state, "feedback_mode", cfg.feedback_mode)
        loop_count == StateGet(state, "feedback_loop_count", 0)
    IN  IF feedback_mode = "auto"
        THEN IF loop_count <= cfg.max_feedback_loops
             THEN "analyze_research_gaps"
             ELSE "write_report"
        ELSE "review_step"

\* evaluate_progress: conditional edge after perform_search
evaluate_progress(state) ==
    LET feedback_mode == StateGet(state, "feedback_mode", cfg.feedback_mode)
        loop_count == StateGet(state, "feedback_loop_count", 0)
    IN  IF feedback_mode = "auto"
        THEN IF loop_count < cfg.max_feedback_loops
             THEN "analyze_research_gaps"
             ELSE "write_report"
        ELSE "review_step"

\* check_human_feedback with the two branches exchanged
check_human_feedback_exchanged(state) ==
    IF Truthy(StateGet(state, "user_feedback", None))
    THEN "write_report"
    ELSE "generate_feedback_queries"

\* check_human_feedback: conditional edge after review_step
check_human_feedback(state) ==
    IF Truthy(StateGet(state, "user_feedback", None))
    THEN "generate_feedback_queries"
    ELSE "write_report"

\* check_auto_feedback with the two branches exchanged
check_auto_feedback_exchanged(state) ==
    IF Truthy(StateGet(state, "user_feedback", None))
    THEN "write_report"
    ELSE "generate_feedback_queries"

\* check_auto_feedback: conditional edge after analyze_research_gaps
check_auto_feedback(state) ==
    IF Truthy(StateGet(state, "user_feedback", None))
    THEN "generate_feedback_queries"
    ELSE "write_report"

\* route_to_search: one Send("perform_search", task) per task of serp_queries
route_to_search(state) == state["serp_queries"]

\* the superstep that follows a list of Sends: none when the list is empty
NextAfterSends(sends) == IF sends = << >> THEN "" ELSE "perform_search"

\* one perform_search task per Send, not started yet
NewTask(task) ==
    [task |-> task, st |-> "start", learnings |-> "", images |-> << >>,
     hadEntry |-> FALSE, viaCache |-> FALSE, raised |-> FALSE]

SendTasks(sends) == [i \in 1..Len(sends) |-> NewTask(sends[i])]

\* ------------------------------------------------------------ node updates
\* plan_research returning a draft of the report as well
plan_research_update_draft(plan) ==
    [report_plan |-> plan, final_report |-> << "draft" >>]

plan_research_update(plan) == [report_plan |-> plan]

generate_queries_update(queries) == [serp_queries |-> queries]

\* generate_feedback_queries leaving the feedback in place
generate_feedback_queries_update_keeping(queries) ==
    [serp_queries |-> queries]

\* generate_feedback_queries returning a loop counter as well
generate_feedback_queries_update_counting(queries) ==
    [serp_queries |-> queries, user_feedback |-> None,
     feedback_loop_count |-> 1]

generate_feedback_queries_update(queries) ==
    [serp_queries |-> queries, user_feedback |-> None]

\* "SATISFIED" in feedback, on the answers of the model
Satisfied(feedback) == feedback = "SATISFIED"

analyze_research_gaps_update(state, feedback) ==
    IF Satisfied(feedback)
    THEN [user_feedback |-> None,
          feedback_loop_count |-> StateGet(state, "feedback_loop_count", 0) + 1]
    ELSE [user_feedback |-> feedback,
          feedback_loop_count |-> StateGet(state, "feedback_loop_count", 0) + 1]

\* review_step returns the state it was given
review_step_update(state) == state

\* DeepResearchSearchResult(...).model_dump() of one resolved task
SearchResult(task, learnings, sources, images) ==
    [query |-> task.query, research_goal |-> task.research_goal,
     learnings |-> << learnings >>, sources |-> sources, images |-> images]

\* perform_search clearing the task list as well
perform_search_update_clearing(result) ==
    [search_results |-> << result >>, serp_queries |-> << >>]

perform_search_update(result) == [search_results |-> << result >>]

\* ------------------------------------------------------------ results table
\* json.dumps / json.loads of a raw_result
json_dumps(obj) == << "json", obj >>

json_loads(text) == text[2]

\* a raw_result text that is not JSON, and json.loads raising on such a text
Unparseable == << "garbage" >>

json_loads_raises(text) == text[1] # "json"

\* get_search_result that finds no row
get_search_result_norow(tbl, research_id, query) == << >>

\* get_search_result that selects by query alone
get_search_result_anyrun(tbl, research_id, query) ==
    IF \E k \in DOMAIN tbl : k[2] = query
    THEN LET found == CHOOSE k \in DOMAIN tbl : k[2] = query
         IN  << [raw_result |-> json_loads(tbl[found].raw_result),
                 learnings |-> tbl[found].learnings] >>
    ELSE << >>

\* get_search_result: SELECT of the row of (research_id, query), returned as
\* << row >>, and << >> for the None it returns when there is no such row
get_search_result(tbl, research_id, query) ==
    IF << research_id, query >> \in DOMAIN tbl
    THEN << [raw_result |-> json_loads(tbl[<< research_id, query >>].raw_result),
             learnings |-> tbl[<< research_id, query >>].learnings] >>
    ELSE << >>

\* get_search_result raises json.JSONDecodeError: the row of (research_id,
\* query) exists and json.loads fails on its raw_result
get_search_result_raises(tbl, research_id, query) ==
    /\ << research_id, query >> \in DOMAIN tbl
    /\ json_loads_raises(tbl[<< research_id, query >>].raw_result)

\* save_search_result that stores no row for a search without sources
save_search_result_nonempty(tbl, research_id, query, raw_result, learnings) ==
    IF raw_result.sources = << >>
    THEN tbl
    ELSE [k \in DOMAIN tbl \cup {<< research_id, query >>} |->
             IF k = << research_id, query >>
             THEN [raw_result |-> json_dumps(raw_result), learnings |-> learnings]
             ELSE tbl[k]]

\* save_search_result: INSERT OR REPLACE (sqlite), INSERT ... ON CONFLICT DO
\* UPDATE (postgres) of the row of (research_id, query)
save_search_result(tbl, research_id, query, raw_result, learnings) ==
    [k \in DOMAIN tbl \cup {<< research_id, query >>} |->
        IF k = << research_id, query >>
        THEN [raw_result |-> json_dumps(raw_result), learnings |-> learnings]
        ELSE tbl[k]]

\* get_report: the text of the row of research_id as << text >>, and << >>
\* for None when there is no such row
get_report(tbl, research_id) ==
    IF research_id \in DOMAIN tbl THEN << tbl[research_id] >> ELSE << >>

\* save_report that keeps the row it finds
save_report_keep(tbl, research_id, report) ==
    [k \in DOMAIN tbl \cup {research_id} |->
        IF k \in DOMAIN tbl THEN tbl[k] ELSE report]

\* save_report: upsert of the row of research_id
save_report(tbl, research_id, report) ==
    [k \in DOMAIN tbl \cup {research_id} |->
        IF k = research_id THEN report ELSE tbl[k]]

\* -------------------------------------------------------------- environment
Tasks == [query : Queries, research_goal : {Goal}]

DetTasks == << [query |-> "q1", research_goal |-> Goal],
               [query |-> "q2", research_goal |-> Goal] >>

\* task lists the query generator can return
TaskLists ==
    IF det THEN {DetTasks}
    ELSE UNION {[1..n -> Tasks] : n \in 0..MaxTasks}

\* task lists the query generator can return in its feedback variant: here
\* no task or one follow-up task
FeedbackTaskLists ==
    IF det THEN {DetTasks}
    ELSE {<< >>} \cup {<< t >> : t \in Tasks}

\* learnings the summarizer returns to task i of a round: a deterministic
\* stub returns one fixed text ("L"); otherwise the text differs from task
\* to task, so that two resolutions do not agree by coincidence
SummarizerOutput(i) == IF det THEN "L" ELSE IF i = 1 THEN "La" ELSE "Lb"

\* what the search provider does with a query: it raises, or it answers with
\* results and images (a deterministic stub answers with none)
Source == [url |-> "u", title |-> "t", content |-> "c"]
Image == [url |-> "i", description |-> None]
ProviderResponses ==
    IF det THEN {[ok |-> TRUE, results |-> << >>, images |-> << >>]}
    ELSE {[ok |-> FALSE, results |-> << >>, images |-> << >>],
          [ok |-> TRUE, results |-> << Source >>, images |-> << Image >>]}

\* search_tools.perform_search that keeps the images found before the error
search_tools_perform_search_partial(response) ==
    IF response.ok
    THEN [sources |-> response.results, images |-> response.images]
    ELSE [sources |-> << >>, images |-> << Image >>]

\* search_tools.perform_search: the provider's results as sources and
\* images; except Exception: return {"sources": [], "images": []}
search_tools_perform_search(response) ==
    IF response.ok
    THEN [sources |-> response.results, images |-> response.images]
    ELSE [sources |-> << >>, images |-> << >>]

\* answers of the gap analyst
AnalystOutputs == IF det THEN {"SATISFIED"} ELSE {"SATISFIED", "gap"}

\* the query argument of run_research: a query, or None when the caller
\* only names the thread
QueryArgs == {"X", None}

\* what the user can type at the prompt
Inputs == IF det THEN {""} ELSE {"", " ", "more"}

\* all_learnings of write_report and of the feedback nodes
RECURSIVE AllLearnings(_)
AllLearnings(results) ==
    IF results = << >> THEN << >>
    ELSE results[1].learnings \o AllLearnings(Tail(results))

\* bracket contents that uuid.UUID(uid_str, version=4) accepts
Uuid4s == {"a", "b"}

\* f'{i+1}' for the positions of a list of cited ids
Numeral == << "1", "2", "3", "4" >>

\* the text f'[{v}]' of a bracket with content v ("x" is not a uuid)
Cite == [v \in Uuid4s \cup {"x", "1", "2", "3", "4"} |->
            CASE v = "a" -> "[a]" [] v = "b" -> "[b]" [] v = "x" -> "[x]"
              [] v = "1" -> "[1]" [] v = "2" -> "[2]" [] v = "3" -> "[3]"
              [] v = "4" -> "[4]"]

\* report bodies the report writer can return: a sequence of pieces of text,
\* some of them brackets
WriterOutputs(state) ==
    IF det THEN {<< "R" >> \o AllLearnings(state["search_results"])}
    ELSE {<< "R1" >>, << "R2", Cite["x"] >>,
          << "R1", Cite["a"], Cite["a"], Cite["b"] >>}

\* all_sources of write_report
RECURSIVE all_sources(_)
all_sources(results) ==
    IF results = << >> THEN << >>
    ELSE results[1].sources \o all_sources(Tail(results))

\* {s.id: s for s in all_sources}, for sources that all have an id
source_dict(sources) ==
    [k \in {sources[i].id : i \in DOMAIN sources} |->
        LET last == CHOOSE i \in DOMAIN sources :
                        /\ sources[i].id = k
                        /\ \A j \in DOMAIN sources : sources[j].id = k => j <= i
        IN  sources[last]]

\* re.findall(r'\[(.*?)\]', report): the contents of the brackets, in order
RECURSIVE raw_uuids(_)
raw_uuids(report) ==
    IF report = << >> THEN << >>
    ELSE (IF \E v \in DOMAIN Cite : Cite[v] = Head(report)
          THEN << CHOOSE v \in DOMAIN Cite : Cite[v] = Head(report) >>
          ELSE << >>) \o raw_uuids(Tail(report))

\* the contents that are uuids, one entry per occurrence
uuids(report) == SelectSeq(raw_uuids(report), LAMBDA v : v \in Uuid4s)

\* report.replace(old, new)
replace(report, old, new) ==
    [j \in DOMAIN report |-> IF report[j] = old THEN new ELSE report[j]]

\* for i, uuid in enumerate(uuids): report = report.replace(f'[{uuid}]', f'[{i+1}]')
RECURSIVE Renumber(_, _, _)
Renumber(report, ids, i) ==
    IF i > Len(ids) THEN report
    ELSE Renumber(replace(report, Cite[ids[i]], Cite[Numeral[i]]), ids, i + 1)

\* "\n\n## Sources\n\n" followed by one line per entry of the list of cited ids
SourcesSection(ids, dict) ==
    << "## Sources" >> \o
    [i \in 1..Len(ids) |->
        << Cite[Numeral[i]], dict[ids[i]].title, dict[ids[i]].url >>]

\* write_report that leaves out the Sources lines of ids it does not know
write_report_result_lenient(state, body) ==
    [error |-> "", report |-> Renumber(body, uuids(body), 1) \o << "## Sources" >>]

\* what write_report does with the writer's body: the exception it raises, or
\* the renumbered body followed by the Sources section
write_report_result(state, body) ==
    LET sources == all_sources(state["search_results"])
        ids == uuids(body)
    IN  IF \E i \in DOMAIN sources : "id" \notin DOMAIN sources[i]
        THEN [error |-> "AttributeError", report |-> << >>]
        ELSE IF \E i \in DOMAIN ids : ids[i] \notin DOMAIN source_dict(sources)
        THEN [error |-> "KeyError", report |-> << >>]
        ELSE [error |-> "",
              report |-> Renumber(body, ids, 1)
                         \o SourcesSection(ids, source_dict(sources))]

\* --------------------------------------------------------------- the driver
StreamPcs == {"stream_new", "stream_fb", "stream_final"}

Streaming(node) ==
    /\ pc \in StreamPcs
    /\ next = node

\* a dead process loses the part of a superstep that was still running; the
\* writes of its finished tasks stay with the checkpoint
ResetTasks(ts) ==
    [i \in DOMAIN ts |-> IF ts[i].st = "done" THEN ts[i] ELSE NewTask(ts[i].task)]

\* run_research that starts the session over whenever a query is given
run_research_restarting ==
    /\ pc = "down"
    /\ invocations < MaxInvocations
    /\ invocations' = invocations + 1
    /\ \E query \in QueryArgs :
          IF ~Truthy(query)
          THEN /\ pc' = IF DOMAIN values = {} THEN "down" ELSE "loop"
               /\ outcome' = IF DOMAIN values = {} THEN "error" ELSE "none"
               /\ calledOn' = IF DOMAIN values = {} THEN "new" ELSE "pending"
               /\ UNCHANGED << values, next >>
          ELSE /\ \E feedback_mode \in Modes :
                     values' = InputValues(InitialState(query, feedback_mode))
               /\ next' = "plan_research"
               /\ pc' = "stream_new"
               /\ outcome' = "none"
               /\ calledOn' = "new"
    /\ first_tick' = FALSE
    /\ retval' = NoText
    /\ UNCHANGED << tasks, cache, reports, cfg, det,
                    searchRounds, everSatisfied, extCalls, counterReturned >>

\* run_research(query, thread_id): a new session when the thread has no
\* checkpoint (ValueError when no query is given), the review loop of an
\* existing session otherwise
run_research ==
    /\ pc = "down"
    /\ invocations < MaxInvocations
    /\ invocations' = invocations + 1
    /\ \E query \in QueryArgs :
          IF DOMAIN values = {}
          THEN IF ~Truthy(query)
               THEN /\ pc' = "down"
                    /\ outcome' = "error"
                    /\ calledOn' = "new"
                    /\ UNCHANGED << values, next >>
               ELSE /\ \E feedback_mode \in Modes :
                          values' = InputValues(InitialState(query, feedback_mode))
                    /\ next' = "plan_research"
                    /\ pc' = "stream_new"
                    /\ outcome' = "none"
                    /\ calledOn' = "new"
          ELSE /\ pc' = "loop"
               /\ outcome' = "none"
               /\ calledOn' = IF StateGet(values, "final_report", NoText) # NoText
                              THEN "done" ELSE "pending"
               /\ UNCHANGED << values, next >>
    /\ first_tick' = FALSE
    /\ retval' = NoText
    /\ UNCHANGED << tasks, cache, reports, cfg, det,
                    searchRounds, everSatisfied, extCalls, counterReturned >>

\* the process dies (kill, power loss) at any point of run_research
Crash ==
    /\ pc # "down"
    /\ pc' = "down"
    /\ outcome' = "crashed"
    /\ tasks' = ResetTasks(tasks)
    /\ first_tick' = FALSE
    /\ UNCHANGED << values, next, cache, reports, cfg, det, retval,
                    invocations, calledOn, searchRounds, everSatisfied, extCalls, counterReturned >>

\* a return that hands back no report
Return_nothing ==
    /\ pc' = "down"
    /\ outcome' = "returned"
    /\ retval' = NoText
    /\ first_tick' = FALSE

\* return final_state.values.get("final_report")
Return ==
    /\ pc' = "down"
    /\ outcome' = "returned"
    /\ retval' = StateGet(values, "final_report", NoText)
    /\ first_tick' = FALSE

\* astream ends: nothing is left to run, or review_step is next and channels
\* changed since the stream was resumed (interrupt_before)
StreamEnds ==
    /\ pc \in StreamPcs
    /\ next = "" \/ (next = "review_step" /\ ~first_tick)
    /\ IF pc = "stream_final"
       THEN Return
       ELSE /\ pc' = "loop"
            /\ first_tick' = FALSE
            /\ UNCHANGED << outcome, retval >>
    /\ UNCHANGED << values, next, tasks, cache, reports, cfg, det,
                    invocations, calledOn, searchRounds, everSatisfied, extCalls,
                    counterReturned >>

\* review loop: if not snapshot.next: break
LoopDone ==
    /\ pc = "loop"
    /\ next = ""
    /\ Return
    /\ UNCHANGED << values, next, tasks, cache, reports, cfg, det,
                    invocations, calledOn, counterReturned >>
    /\ UNCHANGED << searchRounds, everSatisfied, extCalls >>

\* review loop: feedback = input("> ") with not feedback.strip():
\* astream(None) and break
PromptEmpty ==
    /\ pc = "loop"
    /\ next # ""
    /\ \E feedback \in Inputs :
          /\ Strip(feedback) = ""
          /\ pc' = "stream_final"
          /\ first_tick' = TRUE
    /\ UNCHANGED << values, next, tasks, cache, reports, cfg, det,
                    outcome, retval, invocations, calledOn, counterReturned >>
    /\ UNCHANGED << searchRounds, everSatisfied, extCalls >>

\* review loop: non-empty feedback: aupdate_state(..., as_node="review_step")
\* writes user_feedback as review_step would and takes the edge of
\* review_step; then astream(None) and the loop goes on
PromptFeedback ==
    /\ pc = "loop"
    /\ next # ""
    /\ searchRounds < MaxRounds
    /\ \E feedback \in Inputs :
          /\ Strip(feedback) # ""
          /\ LET update == [user_feedback |-> feedback]
                 vals == ApplyWrites(values, update)
             IN  /\ values' = vals
                 /\ next' = check_human_feedback(vals)
                 /\ counterReturned' = ReturnedCounter(update, counterReturned)
          /\ tasks' = << >>
          /\ pc' = "stream_fb"
          /\ first_tick' = TRUE
    /\ UNCHANGED << cache, reports, cfg, det, outcome, retval,
                    invocations, calledOn >>
    /\ UNCHANGED << searchRounds, everSatisfied, extCalls >>

\* ---------------------------------------------------------------- the nodes
\* plan_research, then the edge to generate_queries
plan_research ==
    /\ Streaming("plan_research")
    /\ LET update == plan_research_update("plan")
       IN  /\ values' = ApplyWrites(values, update)
           /\ counterReturned' = ReturnedCounter(update, counterReturned)
    /\ next' = "generate_queries"
    /\ first_tick' = FALSE
    /\ UNCHANGED << tasks, cache, reports, pc, cfg, det, outcome,
                    retval, invocations, calledOn, searchRounds, everSatisfied,
                    extCalls >>

\* generate_queries, then route_to_search
generate_queries ==
    /\ Streaming("generate_queries")
    /\ \E queries \in TaskLists :
          LET update == generate_queries_update(queries)
              vals == ApplyWrites(values, update)
              sends == route_to_search(vals)
          IN  /\ values' = vals
              /\ counterReturned' = ReturnedCounter(update, counterReturned)
              /\ tasks' = SendTasks(sends)
              /\ next' = NextAfterSends(sends)
    /\ first_tick' = FALSE
    /\ UNCHANGED << cache, reports, pc, cfg, det, outcome, retval,
                    invocations, calledOn, searchRounds, everSatisfied, extCalls >>

\* generate_feedback_queries, then route_to_search
generate_feedback_queries ==
    /\ Streaming("generate_feedback_queries")
    /\ searchRounds < MaxRounds
    /\ \E queries \in FeedbackTaskLists :
          LET update == generate_feedback_queries_update(queries)
              vals == ApplyWrites(values, update)
              sends == route_to_search(vals)
          IN  /\ values' = vals
              /\ counterReturned' = ReturnedCounter(update, counterReturned)
              /\ tasks' = SendTasks(sends)
              /\ next' = NextAfterSends(sends)
    /\ first_tick' = FALSE
    /\ UNCHANGED << cache, reports, pc, cfg, det, outcome, retval,
                    invocations, calledOn, searchRounds, everSatisfied, extCalls >>

\* analyze_research_gaps, then check_auto_feedback
analyze_research_gaps ==
    /\ Streaming("analyze_research_gaps")
    /\ \E feedback \in AnalystOutputs :
          LET update == analyze_research_gaps_update(values, feedback)
              vals == ApplyWrites(values, update)
          IN  /\ values' = vals
              /\ counterReturned' = ReturnedCounter(update, counterReturned)
              /\ next' = check_auto_feedback(vals)
              /\ everSatisfied' = (everSatisfied \/ feedback # "gap")
    /\ first_tick' = FALSE
    /\ UNCHANGED << tasks, cache, reports, pc, cfg, det, outcome,
                    retval, invocations, calledOn, searchRounds, extCalls >>

\* review_step (runs only as the first superstep of a resumed stream), then
\* check_human_feedback
review_step ==
    /\ Streaming("review_step")
    /\ first_tick
    /\ LET update == review_step_update(values)
           vals == ApplyWrites(values, update)
       IN  /\ values' = vals
           /\ counterReturned' = ReturnedCounter(update, counterReturned)
           /\ next' = check_human_feedback(vals)
    /\ first_tick' = FALSE
    /\ UNCHANGED << tasks, cache, reports, pc, cfg, det, outcome,
                    retval, invocations, calledOn, searchRounds, everSatisfied,
                    extCalls >>

\* write_report: the writer's body, the renumbering, the Sources section,
\* save_report, then END; an exception of the node ends the invocation
write_report ==
    /\ Streaming("write_report")
    /\ \E body \in WriterOutputs(values) :
          LET result == write_report_result(values, body)
              update == [final_report |-> result.report]
          IN  IF result.error = ""
              THEN /\ reports' = save_report(reports, thread_id, result.report)
                   /\ values' = ApplyWrites(values, update)
                   /\ counterReturned' = ReturnedCounter(update, counterReturned)
                   /\ next' = ""
                   /\ UNCHANGED << pc, outcome >>
              ELSE /\ pc' = "down"
                   /\ outcome' = "error"
                   /\ UNCHANGED << values, next, reports, counterReturned >>
    /\ first_tick' = FALSE
    /\ UNCHANGED << tasks, cache, cfg, det, retval, invocations, calledOn,
                    searchRounds, everSatisfied, extCalls >>

\* a model call of a node raises (after the retries of the node, if any): the
\* exception leaves astream and run_research; no checkpoint is written
LlmNodes == {"plan_research", "generate_queries", "generate_feedback_queries",
             "analyze_research_gaps", "write_report"}

NodeFails ==
    /\ pc \in StreamPcs
    /\ next \in LlmNodes
    /\ ~det
    /\ pc' = "down"
    /\ outcome' = "error"
    /\ first_tick' = FALSE
    /\ UNCHANGED << values, next, tasks, cache, reports, cfg, det,
                    retval, invocations, calledOn, searchRounds, everSatisfied,
                    extCalls, counterReturned >>

\* ------------------------------------------------- perform_search (fan-out)
\* a join that waits for the first task only
AllDone_first(ts) == ts # << >> /\ ts[1].st = "done"

AllDone(ts) == \A i \in DOMAIN ts : ts[i].st = "done"

TaskResult(t) == SearchResult(t.task, t.learnings, << >>, t.images)

\* the writes of the tasks of a superstep, applied in the order of the Sends
RECURSIVE ApplyTaskWrites(_, _)
ApplyTaskWrites(vals, ts) ==
    IF ts = << >> THEN vals
    ELSE ApplyTaskWrites(
             ApplyWrites(vals, perform_search_update(TaskResult(Head(ts)))),
             Tail(ts))

\* the exception of a task leaves astream and run_research: the superstep is
\* not completed and the tasks still running are cancelled
TaskRaises ==
    /\ pc' = "down"
    /\ outcome' = "error"
    /\ tasks' = ResetTasks(tasks)
    /\ first_tick' = FALSE
    /\ UNCHANGED << values, next, cache, reports, cfg, det, retval,
                    invocations, calledOn, searchRounds, everSatisfied, extCalls,
                    counterReturned >>

\* cached = await get_search_result(thread_id, query); a hit returns the
\* result rebuilt from the row; an exception of get_search_result is the
\* exception of the task
ps_cache_check(i) ==
    /\ Streaming("perform_search")
    /\ i \in DOMAIN tasks
    /\ tasks[i].st = "start"
    /\ LET q == tasks[i].task.query
       IN  IF get_search_result_raises(cache, thread_id, q)
           THEN TaskRaises
           ELSE /\ LET cached == get_search_result(cache, thread_id, q)
                   IN  IF cached # << >>
                       THEN tasks' = [tasks EXCEPT
                                ![i].st = "done",
                                ![i].learnings = cached[1].learnings,
                                ![i].images = cached[1].raw_result.images,
                                ![i].hadEntry = << thread_id, q >> \in DOMAIN cache,
                                ![i].viaCache = TRUE]
                       ELSE tasks' = [tasks EXCEPT
                                ![i].st = "resolving",
                                ![i].hadEntry = << thread_id, q >> \in DOMAIN cache]
                /\ UNCHANGED << values, next, cache, reports, pc, first_tick,
                                cfg, det, outcome, retval, invocations, calledOn,
                                searchRounds, everSatisfied, extCalls,
                                counterReturned >>

\* search_data = await search_tools.perform_search(query) returns no source
\* (context_str is empty), then learnings = await chain.ainvoke(...) returns
ps_resolve(i) ==
    /\ Streaming("perform_search")
    /\ i \in DOMAIN tasks
    /\ tasks[i].st = "resolving"
    /\ \E response \in ProviderResponses :
          LET data == search_tools_perform_search(response)
          IN  /\ data.sources = << >>
              /\ tasks' = [tasks EXCEPT ![i].st = "saving",
                                        ![i].images = data.images,
                                        ![i].learnings = SummarizerOutput(i),
                                        ![i].raised = ~response.ok]
    /\ extCalls' = [extCalls EXCEPT ![tasks[i].task.query] = @ + 1]
    /\ UNCHANGED << values, next, cache, reports, pc, first_tick, cfg, det,
                    outcome, retval, invocations, calledOn, searchRounds,
                    everSatisfied, counterReturned >>

\* search_tools.perform_search returned sources: context_str reads s.id, and
\* SearchResultItem has the fields url, title and content only, so the task
\* raises AttributeError
ps_search_sources(i) ==
    /\ Streaming("perform_search")
    /\ i \in DOMAIN tasks
    /\ tasks[i].st = "resolving"
    /\ \E response \in ProviderResponses :
          search_tools_perform_search(response).sources # << >>
    /\ TaskRaises

\* the summarizer fails on each of its 10 attempts: the task raises
ps_summarize_fails(i) ==
    /\ Streaming("perform_search")
    /\ i \in DOMAIN tasks
    /\ tasks[i].st = "resolving"
    /\ ~det
    /\ TaskRaises

\* await save_search_result(...), then the task returns its result
ps_save(i) ==
    /\ Streaming("perform_search")
    /\ i \in DOMAIN tasks
    /\ tasks[i].st = "saving"
    /\ LET q == tasks[i].task.query
           raw_result == [sources |-> << >>, images |-> tasks[i].images]
       IN  cache' = save_search_result(cache, thread_id, q, raw_result,
                                           tasks[i].learnings)
    /\ tasks' = [tasks EXCEPT ![i].st = "done"]
    /\ UNCHANGED << values, next, reports, pc, first_tick, cfg, det, outcome,
                    retval, invocations, calledOn, searchRounds, everSatisfied, extCalls,
                    counterReturned >>

\* every task of the superstep has returned: the writes of the tasks are
\* applied, evaluate_progress names the next node and the checkpoint of the
\* superstep is written
perform_search_join ==
    /\ Streaming("perform_search")
    /\ AllDone(tasks)
    /\ LET vals == ApplyTaskWrites(values, tasks)
       IN  /\ values' = vals
           /\ next' = evaluate_progress(vals)
    /\ tasks' = << >>
    /\ searchRounds' = searchRounds + 1
    /\ first_tick' = FALSE
    /\ UNCHANGED << cache, reports, pc, cfg, det, outcome, retval, invocations, calledOn,
                    everSatisfied, extCalls, counterReturned >>

\* ------------------------------------------------------------ specification
Init ==
    /\ values = EmptyValues
    /\ next = ""
    /\ tasks = << >>
    /\ cache = [k \in {} |-> None]
    /\ reports = [k \in {} |-> None]
    /\ pc = "down"
    /\ first_tick = FALSE
    /\ cfg \in [feedback_mode : Modes, max_feedback_loops : 0..MaxK]
    /\ det \in BOOLEAN
    /\ outcome = "none"
    /\ retval = NoText
    /\ invocations = 0
    /\ calledOn = "none"
    /\ searchRounds = 0
    /\ everSatisfied = FALSE
    /\ extCalls = [q \in Queries |-> 0]
    /\ counterReturned = 0

Next ==
    \/ run_research
    \/ Crash
    \/ StreamEnds
    \/ LoopDone
    \/ PromptEmpty
    \/ PromptFeedback
    \/ plan_research
    \/ generate_queries
    \/ generate_feedback_queries
    \/ analyze_research_gaps
    \/ review_step
    \/ write_report
    \/ NodeFails
    \/ \E i \in 1..MaxTasks : ps_cache_check(i)
    \/ \E i \in 1..MaxTasks : ps_resolve(i)
    \/ \E i \in 1..MaxTasks : ps_search_sources(i)
    \/ \E i \in 1..MaxTasks : ps_summarize_fails(i)
    \/ \E i \in 1..MaxTasks : ps_save(i)
    \/ perform_search_join

Spec == Init /\ [][Next]_vars

\* ------------------------------------------------------------------ claims
\* the loop counter a node or a router reads from the state
loop_count == StateGet(values, "feedback_loop_count", 0)

\* the first run_research call of the thread is streaming, in automatic mode,
\* and the gap analyst has reported a gap each time it was asked
AutoAlwaysGap ==
    /\ cfg.feedback_mode = "auto"
    /\ ~everSatisfied
    /\ invocations = 1
    /\ pc = "stream_new"

\* C1: in automatic mode with max_loops = k and an analyst that always
\* reports a gap, write_report is reached after exactly k completed SEARCH
\* rounds: no round is run past k and write_report is not next before k
C1_AutoLoopBound ==
    AutoAlwaysGap =>
        /\ searchRounds <= cfg.max_feedback_loops
        /\ next = "write_report" => searchRounds = cfg.max_feedback_loops

\* C2: in automatic mode with max_loops = 1 and an analyst that always
\* reports a gap, once 2 SEARCH rounds are completed nothing but write_report
\* runs (and then the stream has nothing left to run)
C2_TwoRoundsThenReport ==
    (AutoAlwaysGap /\ cfg.max_feedback_loops = 1 /\ searchRounds = 2)
        => next \in {"write_report", ""}

\* C3: in automatic mode the loop counter never exceeds max_loops, neither
\* as read from the state nor as returned by a node, crash and resume
\* included
C3_LoopCountBounded ==
    cfg.feedback_mode = "auto" =>
        /\ loop_count <= cfg.max_feedback_loops
        /\ counterReturned <= cfg.max_feedback_loops

\* C3 witness: automatic mode, the analyst has run and returned a counter,
\* and the session was resumed after a crash
C3_Witness ==
    /\ cfg.feedback_mode = "auto"
    /\ counterReturned = cfg.max_feedback_loops
    /\ counterReturned > 0
    /\ invocations > 1
    /\ searchRounds > 1
\* the SEARCH round of the deterministic stubs, every task resolved
DetRound ==
    [i \in DOMAIN DetTasks |->
        [NewTask(DetTasks[i]) EXCEPT !.st = "done", !.learnings = "L"]]

\* the checkpoint an uninterrupted run over the deterministic stubs holds
\* when write_report starts: plan_research, generate_queries, one SEARCH
\* round and, in human mode, review_step after the empty feedback
UninterruptedValues ==
    LET v0 == InputValues(InitialState("X", cfg.feedback_mode))
        v1 == ApplyWrites(v0, plan_research_update("plan"))
        v2 == ApplyWrites(v1, generate_queries_update(DetTasks))
        v3 == ApplyTaskWrites(v2, DetRound)
    IN  IF evaluate_progress(v3) = "review_step"
        THEN ApplyWrites(v3, review_step_update(v3))
        ELSE v3

\* final_report of the uninterrupted run over the deterministic stubs
UninterruptedReport ==
    << "R" >> \o AllLearnings(UninterruptedValues["search_results"])
              \o SourcesSection(<< >>, << >>)

\* C4: with deterministic stubs, a run_research call that returns, after any
\* number of crashes and resumes, returns the final_report of the
\* uninterrupted run
C4_ResumeSameReport ==
    (det /\ outcome = "returned") => retval = UninterruptedReport

\* C5: a failing task (search error, summarizer error) does not abort its
\* SEARCH round: run_research never ends on an exception while
\* perform_search is the pending superstep
C5_RoundNeverAborted ==
    ~(outcome = "error" /\ next = "perform_search")

\* C6: for each query of the run, the external search-and-summarize is run
\* to completion at most once
C6_AtMostOneResolution ==
    \A q \in Queries : extCalls[q] <= 1
\* key of the row of task i in the search_results table
RowKey(i) == << thread_id, tasks[i].task.query >>

\* task i leaves "start" in this step: its cache check is done
CacheChecked(i) ==
    /\ i \in DOMAIN tasks
    /\ i \in DOMAIN tasks'
    /\ tasks[i].st = "start"
    /\ tasks'[i].st # "start"

\* task i saves its row in this step and returns
Saved(i) ==
    /\ i \in DOMAIN tasks
    /\ i \in DOMAIN tasks'
    /\ tasks[i].st = "saving"
    /\ tasks'[i].st = "done"

\* C7: a resolution that returns leaves its learnings in the row of its
\* query, and a resolution of a query started when the row exists makes no
\* external call and returns the learnings of the row: resolving twice in
\* sequence makes at most one external call and returns the same learnings
C7_CacheIdempotence ==
    [][\A i \in 1..MaxTasks :
          /\ Saved(i) =>
                /\ RowKey(i) \in DOMAIN cache'
                /\ cache'[RowKey(i)].learnings = tasks'[i].learnings
          /\ (CacheChecked(i) /\ RowKey(i) \in DOMAIN cache) =>
                /\ tasks'[i].st = "done"
                /\ tasks'[i].learnings = cache[RowKey(i)].learnings
                /\ extCalls' = extCalls]_vars

\* C7 witness: a query resolved externally once, and a later task of the
\* same query served from its row with the learnings of the row
C7_Witness ==
    \E i \in DOMAIN tasks :
        /\ tasks[i].st = "done"
        /\ tasks[i].viaCache
        /\ searchRounds > 0
        /\ extCalls[tasks[i].task.query] = 1
        /\ tasks[i].learnings = cache[RowKey(i)].learnings

\* search_results of a checkpoint
Results(vals) == StateGet(vals, "search_results", << >>)

\* C8: search_results holds exactly one element per resolved task: its
\* length changes only when a SEARCH round completes, and then by the number
\* of tasks of the round
C8_OneElementPerTask ==
    [][Len(Results(values')) # Len(Results(values)) =>
          /\ next = "perform_search"
          /\ AllDone(tasks)
          /\ Len(Results(values')) = Len(Results(values)) + Len(tasks)]_vars

\* C9: when review_step is next, empty or blank feedback makes write_report
\* the next node and non-empty feedback makes generate_feedback_queries the
\* next node
C9_ReviewRouting ==
    [][(next = "review_step" /\ next' # "review_step") =>
          \/ pc = "stream_final" /\ next' = "write_report"
          \/ /\ pc = "loop"
             /\ pc' = "stream_fb"
             /\ Strip(values'["user_feedback"]) # ""
             /\ next' = "generate_feedback_queries"]_vars

\* C9 witness: in human mode a feedback round was run on non-empty feedback
\* and, after a later empty feedback, write_report is next
C9_Witness ==
    /\ cfg.feedback_mode = "human"
    /\ invocations = 1
    /\ searchRounds = 2
    /\ pc = "stream_final"
    /\ next = "write_report"

\* C10: in human mode the loop counter keeps its initial value 0: no node
\* returns it and the state never holds another value
C10_HumanNoCounter ==
    cfg.feedback_mode = "human" =>
        /\ loop_count = 0
        /\ counterReturned = 0

\* C10 witness: human mode, after rounds run on human feedback
C10_Witness ==
    /\ cfg.feedback_mode = "human"
    /\ invocations = 1
    /\ searchRounds >= 2
    /\ loop_count = 0

\* the review loop is about to call input("> "): the caller is asked for
\* feedback
Prompting ==
    /\ pc = "loop"
    /\ next # ""

\* C11: the caller is asked for feedback only when review_step is the next
\* node, and never in automatic mode, resumed runs included
C11_PromptOnlyAtReview ==
    Prompting => (next = "review_step" /\ cfg.feedback_mode = "human")

\* the mode the routers read
mode == StateGet(values, "feedback_mode", cfg.feedback_mode)

\* a superstep of the running stream
StreamStep ==
    /\ pc \in StreamPcs
    /\ pc' = pc

\* C12: after a completed SEARCH round the next node is analyze_research_gaps
\* in automatic mode below the bound, write_report in automatic mode at the
\* bound and review_step in human mode; after analyze_research_gaps it is
\* generate_feedback_queries when a gap was reported and write_report
\* otherwise
C12_RoutingTable ==
    [][StreamStep =>
          /\ (next = "perform_search" /\ next' # "perform_search") =>
                \/ /\ mode = "auto"
                   /\ loop_count' < cfg.max_feedback_loops
                   /\ next' = "analyze_research_gaps"
                \/ /\ mode = "auto"
                   /\ loop_count' >= cfg.max_feedback_loops
                   /\ next' = "write_report"
                \/ /\ mode = "human"
                   /\ next' = "review_step"
          /\ (next = "analyze_research_gaps"
                    /\ next' # "analyze_research_gaps") =>
                \/ /\ values'["user_feedback"] = "gap"
                   /\ next' = "generate_feedback_queries"
                \/ /\ values'["user_feedback"] = None
                   /\ next' = "write_report"]_vars

\* C12 witness: in automatic mode a SEARCH round completed, the analyst ran
\* and reported a gap, and generate_feedback_queries is next
C12_Witness ==
    /\ mode = "auto"
    /\ pc = "stream_new"
    /\ searchRounds = 1
    /\ values["user_feedback"] = "gap"
    /\ next = "generate_feedback_queries"

\* final_report of a checkpoint
FinalReport(vals) == StateGet(vals, "final_report", NoText)

\* the thread has a checkpoint with no next node: the run has stopped
Stopped ==
    /\ DOMAIN values # {}
    /\ next = ""

\* C13: a run that has stopped with no next node has a non-empty
\* final_report, whatever task list the query generator returned
C13_StoppedHasReport ==
    Stopped => FinalReport(values) # NoText

\* C14: final_report is written by write_report only and once: it changes
\* only in a superstep that runs write_report, and only from empty
C14_ReportWrittenOnce ==
    [][FinalReport(values') # FinalReport(values) =>
          /\ StreamStep
          /\ next = "write_report"
          /\ FinalReport(values) = NoText]_vars

\* C14 witness: the report is written and run_research was called again on
\* the thread and has returned
C14_Witness ==
    /\ FinalReport(values) # NoText
    /\ invocations > 1
    /\ outcome = "returned"
    /\ retval = FinalReport(values)

\* the run of the thread is DONE: it has a non-empty final_report
Done == FinalReport(values) # NoText

\* this step is a call of run_research
Called == invocations' = invocations + 1

\* C15: a run_research call on a thread with no checkpoint that names no
\* query, and a run_research call on a thread that is DONE, each end at once
\* in an error: no node runs and nothing is returned as a success
C15_InvalidCallsFail ==
    [][(Called /\ (Done \/ (DOMAIN values = {} /\ DOMAIN values' = {}))) =>
          /\ pc' = "down"
          /\ outcome' = "error"
          /\ UNCHANGED << values, next >>]_vars

\* C16: once the run is DONE a run_research call runs no node and makes no
\* external call: the checkpoint, the tables and the counters of external
\* work stay as they are, the call goes to the review loop and from there
\* returns, and what it returns is the stored final_report
C16_DoneRunReturnsReport ==
    [][Done =>
          /\ UNCHANGED << values, next, tasks, cache, reports, extCalls,
                          searchRounds >>
          /\ Called => pc' = "loop"
          /\ (pc = "loop" /\ outcome' = "returned") =>
                retval' = FinalReport(values)]_vars

\* C16 witness: a run_research call that found the run DONE has returned the
\* stored report
C16_Witness ==
    /\ calledOn = "done"
    /\ outcome = "returned"
    /\ retval = FinalReport(values)
    /\ retval # NoText

\* this step runs the superstep of node
Runs(node) ==
    /\ StreamStep
    /\ next = node
    /\ next' # node

\* C17: a resumed run continues from the next node of the latest checkpoint:
\* plan_research runs only in a run_research call that found no checkpoint,
\* and when the review loop resumes the stream the next node is the one the
\* checkpoint names (review_step excepted, where the feedback is routed)
C17_ResumeFromNext ==
    [][/\ Runs("plan_research") => calledOn = "new"
       /\ (pc = "loop" /\ pc' \in StreamPcs /\ next # "review_step")
             => next' = next]_vars

\* ------------------------------------------------------- the results store
\* The two tables on their own, written under several run ids.
RunIds == {"T", "U"}

RawResults == {[sources |-> << >>, images |-> << >>],
               [sources |-> << >>, images |-> << Image >>]}

LearningTexts == {"La", "Lb"}

ReportTexts == {<< "R1" >>, << "R2" >>}

\* a call of save_search_result
StoreSearchResult ==
    /\ \E research_id \in RunIds, query \in Queries,
          raw_result \in RawResults, learnings \in LearningTexts :
          cache' = save_search_result(cache, research_id, query, raw_result,
                                      learnings)
    /\ UNCHANGED << values, next, tasks, reports, pc, first_tick, cfg, det,
                    outcome, retval, invocations, calledOn, searchRounds,
                    everSatisfied, extCalls, counterReturned >>

\* a call of save_report
StoreReport ==
    /\ \E research_id \in RunIds, report \in ReportTexts :
          reports' = save_report(reports, research_id, report)
    /\ UNCHANGED << values, next, tasks, cache, pc, first_tick, cfg, det,
                    outcome, retval, invocations, calledOn, searchRounds,
                    everSatisfied, extCalls, counterReturned >>

\* the tables after init_db, no run started
DbInit ==
    /\ Init
    /\ cfg = [feedback_mode |-> "human", max_feedback_loops |-> 0]
    /\ det = FALSE

DbNext ==
    \/ StoreSearchResult
    \/ StoreReport

DbSpec == DbInit /\ [][DbNext]_vars

\* C18: get_search_result returns the raw_result and learnings of the last
\* save_search_result made with exactly its research_id and query, and None
\* when there was none: after a save the saved pair reads back what was
\* saved, every other pair reads what it read before, and a pair with no
\* row reads None
C18_GetReturnsLastSave ==
    /\ \A r \in RunIds, q \in Queries :
          << r, q >> \notin DOMAIN cache
              => get_search_result(cache, r, q) = << >>
    /\ \A r1 \in RunIds, q1 \in Queries, raw \in RawResults,
          l \in LearningTexts, r2 \in RunIds, q2 \in Queries :
          get_search_result(save_search_result(cache, r1, q1, raw, l), r2, q2)
              = IF r2 = r1 /\ q2 = q1
                THEN << [raw_result |-> raw, learnings |-> l] >>
                ELSE get_search_result(cache, r2, q2)

\* C18 witness: the same query is saved under two run ids with different
\* learnings, another query under neither; each read returns its own row
C18_Witness ==
    /\ get_search_result(cache, "T", "q1") # << >>
    /\ get_search_result(cache, "U", "q1") # << >>
    /\ get_search_result(cache, "T", "q1")[1].learnings = "La"
    /\ get_search_result(cache, "U", "q1")[1].learnings = "Lb"
    /\ get_search_result(cache, "T", "q2") = << >>

\* C19: get_report returns the text of the last save_report of its run id
\* (a second save replaces the first) and None when there was none: after a
\* save the saved run id reads back the saved text, every other run id
\* reads what it read before, and a run id with no row reads None
C19_GetReportReturnsLastSave ==
    /\ \A r \in RunIds :
          r \notin DOMAIN reports => get_report(reports, r) = << >>
    /\ \A r1 \in RunIds, text \in ReportTexts, r2 \in RunIds :
          get_report(save_report(reports, r1, text), r2)
              = IF r2 = r1 THEN << text >> ELSE get_report(reports, r2)

\* C19 witness: a report is saved under one run id and none under the other
C19_Witness ==
    /\ get_report(reports, "T") = << << "R2" >> >>
    /\ get_report(reports, "U") = << >>

\* ------------------------------------------------- citations of the report
\* the cited ids of a body, once each, in order of first appearance
RECURSIVE FirstAppearance(_, _)
FirstAppearance(ids, seen) ==
    IF ids = << >> THEN << >>
    ELSE IF Head(ids) \in seen THEN FirstAppearance(Tail(ids), seen)
    ELSE << Head(ids) >> \o FirstAppearance(Tail(ids), seen \cup {Head(ids)})

\* the number of a cited id: its place in the order of first appearance
Rank(order, id) == CHOOSE n \in DOMAIN order : order[n] = id

\* the body with every marker of a cited id replaced by the number of the id
Renumbered(body) ==
    LET order == FirstAppearance(uuids(body), {})
    IN  [j \in DOMAIN body |->
            IF \E id \in Uuid4s : body[j] = Cite[id]
            THEN LET id == CHOOSE id \in Uuid4s : body[j] = Cite[id]
                 IN  Cite[Numeral[Rank(order, id)]]
            ELSE body[j]]

\* C20: write_report renumbers the citation ids of the body to 1..N in order
\* of first appearance: whenever the writer returns a body that cites ids,
\* write_report produces a report whose body has every marker of the n-th id
\* replaced by [n] and whose Sources section has, for every n, the line of
\* [n] with the title and url of the source with that id
C20_CitationsRenumbered ==
    (pc \in StreamPcs /\ next = "write_report") =>
        \A body \in WriterOutputs(values) :
            LET order == FirstAppearance(uuids(body), {})
                sources == all_sources(values["search_results"])
                result == write_report_result(values, body)
            IN  order # << >> =>
                  /\ result.error = ""
                  /\ SubSeq(result.report, 1, Len(body)) = Renumbered(body)
                  /\ \A n \in DOMAIN order :
                        \E j \in Len(body) + 2 .. Len(result.report) :
                            result.report[j] =
                                << Cite[Numeral[n]],
                                   source_dict(sources)[order[n]].title,
                                   source_dict(sources)[order[n]].url >>

\* the numbers that appear in brackets in a piece of report
NumbersIn(text) ==
    {n \in DOMAIN Numeral : \E j \in DOMAIN text : text[j] = Cite[Numeral[n]]}

\* C21: for every body the writer returns, one that cites the same id
\* several times included, write_report produces a report whose Sources
\* section has exactly one line per distinct cited id, and the numbers in
\* the body and the numbers of the lines are exactly 1..N, N the number of
\* distinct cited ids
C21_OneEntryPerCitedId ==
    (pc \in StreamPcs /\ next = "write_report") =>
        \A body \in WriterOutputs(values) :
            LET N == Len(FirstAppearance(uuids(body), {}))
                result == write_report_result(values, body)
                lines == SubSeq(result.report, Len(body) + 2, Len(result.report))
            IN  /\ result.error = ""
                /\ Len(lines) = N
                /\ NumbersIn(SubSeq(result.report, 1, Len(body))) = 1..N
                /\ {lines[j][1] : j \in DOMAIN lines}
                       = {Cite[Numeral[n]] : n \in 1..N}

\* ------------------------------------------------ runs that are not cut short
\* The workflow with no kill and with collaborators that return: every model
\* call yields an answer and every search returns.  A step of run_research
\* that can be taken is taken; a new run_research call is the caller's choice.
Step ==
    \/ StreamEnds
    \/ LoopDone
    \/ PromptEmpty
    \/ PromptFeedback
    \/ plan_research
    \/ generate_queries
    \/ generate_feedback_queries
    \/ analyze_research_gaps
    \/ review_step
    \/ write_report
    \/ \E i \in 1..MaxTasks : ps_cache_check(i)
    \/ \E i \in 1..MaxTasks : ps_resolve(i)
    \/ \E i \in 1..MaxTasks : ps_search_sources(i)
    \/ \E i \in 1..MaxTasks : ps_save(i)
    \/ perform_search_join

ReturningNext ==
    \/ run_research
    \/ Step

FairSpec == Init /\ [][ReturningNext]_vars /\ WF_vars(Step)

\* a run was started on the thread in automatic mode
AutoStarted ==
    /\ cfg.feedback_mode = "auto"
    /\ DOMAIN values # {}

\* the rounds explored are used up and a further SEARCH round is due
RoundsExplored ==
    /\ searchRounds >= MaxRounds
    /\ next = "generate_feedback_queries"

\* C22: in automatic mode, with no kill and collaborators that always
\* return, every run that was started eventually has its final_report,
\* whatever the gap analyst answers (runs that go on past the rounds
\* explored are left undecided)
C22_AutoRunReachesDone ==
    AutoStarted ~> (Done \/ RoundsExplored)

\* the first run_research call of the thread is streaming in automatic mode
\* and the decision that follows a SEARCH round is made: the next node is
\* the one the ceiling check or the gap analyst chose
AutoDecided ==
    /\ cfg.feedback_mode = "auto"
    /\ invocations = 1
    /\ pc = "stream_new"
    /\ searchRounds > 0
    /\ next \in {"generate_feedback_queries", "write_report"}

\* C23: in automatic mode the loop counter is incremented exactly once in
\* every SEARCH-to-decision cycle, whatever its outcome: after the decision
\* that follows the r-th completed SEARCH round the counter is r
C23_CounterCountsRounds ==
    AutoDecided => loop_count = searchRounds

\* a feedback string is pending in the state
FeedbackPending == Truthy(StateGet(values, "user_feedback", None))

\* C24: user_feedback is cleared when generate_feedback_queries consumes it:
\* feedback is pending only while generate_feedback_queries is the next
\* node, so it is absent at the start of every SEARCH round and at every
\* pause before review_step, and one feedback string starts at most one
\* feedback round
C24_FeedbackClearedOnceConsumed ==
    FeedbackPending => next = "generate_feedback_queries"

\* C24 witness: in human mode a feedback round ran on a feedback string and
\* the run is paused before review_step again, with no feedback pending
C24_Witness ==
    /\ cfg.feedback_mode = "human"
    /\ invocations = 1
    /\ searchRounds = 2
    /\ pc = "loop"
    /\ next = "review_step"
    /\ ~FeedbackPending

\* serp_queries of a checkpoint
SerpQueries(vals) == StateGet(vals, "serp_queries", << >>)

\* this step completes a SEARCH round
RoundCompletes ==
    /\ StreamStep
    /\ next = "perform_search"
    /\ next' # "perform_search"

\* C25 as stated: serp_queries is empty after every completed SEARCH round
C25_TasksClearedAfterRound ==
    (searchRounds > 0
        /\ next \in {"review_step", "analyze_research_gaps", "write_report"})
        => SerpQueries(values) = << >>

\* C25 amended: the fan-out does not clear serp_queries: when a SEARCH round
\* completes, serp_queries still holds exactly the tasks of that round, and
\* serp_queries changes only in the superstep of generate_queries or of
\* generate_feedback_queries, which replaces it
C25_TasksKeptUntilRegenerated ==
    [][/\ RoundCompletes =>
             /\ SerpQueries(values') # << >>
             /\ SerpQueries(values') = [i \in DOMAIN tasks |-> tasks[i].task]
       /\ (DOMAIN values # {} /\ SerpQueries(values') # SerpQueries(values)) =>
             /\ StreamStep
             /\ next \in {"generate_queries", "generate_feedback_queries"}]_vars

\* C25 witness: a second SEARCH round, run on the one task of a feedback
\* list, is completed and the run is paused with that task still in
\* serp_queries
C25_Witness ==
    /\ searchRounds = 2
    /\ pc = "loop"
    /\ next = "review_step"
    /\ Len(SerpQueries(values)) = 1
    /\ Results(values)[Len(Results(values))].query = SerpQueries(values)[1].query

\* ------------------------------------------------------- a damaged cache row
\* The workflow over a search_results table whose rows can be damaged from
\* outside: raw_result is a TEXT column and any text can be found in it.
CorruptRow ==
    /\ \E k \in DOMAIN cache :
          /\ cache[k].raw_result # Unparseable
          /\ cache' = [cache EXCEPT ![k].raw_result = Unparseable]
    /\ UNCHANGED << values, next, tasks, reports, pc, first_tick, cfg, det,
                    outcome, retval, invocations, calledOn, searchRounds,
                    everSatisfied, extCalls, counterReturned >>

CorruptNext ==
    \/ Next
    \/ CorruptRow

CorruptSpec == Init /\ [][CorruptNext]_vars

\* the only task of the round is at its cache check and the row of its query
\* cannot be parsed
CheckOfDamagedRow ==
    /\ Streaming("perform_search")
    /\ Len(tasks) = 1
    /\ tasks[1].st = "start"
    /\ RowKey(1) \in DOMAIN cache
    /\ cache[RowKey(1)].raw_result = Unparseable

\* C26: a cache row whose payload cannot be parsed is treated as a cache
\* miss: the cache check of the task (the one step the running process can
\* take there) sends the task to the external search and the run goes on
\* without an error
C26_DamagedRowIsMiss ==
    [][(CheckOfDamagedRow /\ cache' = cache /\ outcome' # "crashed") =>
          /\ tasks'[1].st = "resolving"
          /\ pc' = pc
          /\ outcome' = outcome]_vars

\* The workflow with no kill: a run_research call ends by returning or by
\* an exception of a node.
NoKillNext ==
    \/ NodeFails
    \/ \E i \in 1..MaxTasks : ps_summarize_fails(i)
    \/ ReturningNext

NoKillSpec == Init /\ [][NoKillNext]_vars

\* C27: when plan_research or write_report ends in an exception, the
\* exception ends the run_research call, no later node runs in it, the
\* checkpoint (values, next node, pending tasks) and both tables stay as
\* they were, final_report is empty and no report is stored; and a later
\* run_research call that resumes the stream resumes it at the failed node
C27_PlannerWriterFailureIsFatal ==
    [][/\ (pc \in StreamPcs /\ next \in {"plan_research", "write_report"}
              /\ outcome' = "error") =>
             /\ pc' = "down"
             /\ UNCHANGED << values, next, tasks, cache, reports >>
             /\ FinalReport(values') = NoText
             /\ get_report(reports', thread_id) = << >>
       /\ (pc = "loop" /\ next \in {"plan_research", "write_report"}
              /\ pc' \in StreamPcs) =>
             next' = next]_vars

\* task i consumes the answer of the search provider in this step, and the
\* provider raised
ProviderRaisedFor(i) ==
    /\ i \in DOMAIN tasks
    /\ i \in DOMAIN tasks'
    /\ ~tasks[i].raised
    /\ tasks'[i].raised

\* C28: when the search provider raises for a task, the task goes on with
\* empty sources and images, the other tasks keep their state and the
\* run_research call is not ended; such a task yields one result with empty
\* sources and images like any other task when the round completes, and the
\* round is followed by the routing decision
C28_ProviderErrorYieldsEmptyResult ==
    [][/\ \A i \in 1..MaxTasks :
             ProviderRaisedFor(i) =>
                /\ tasks'[i].st = "saving"
                /\ TaskResult(tasks'[i]).sources = << >>
                /\ TaskResult(tasks'[i]).images = << >>
                /\ \A j \in DOMAIN tasks : j # i => tasks'[j] = tasks[j]
                /\ UNCHANGED << pc, outcome, values, next >>
       /\ RoundCompletes =>
             /\ next' \in {"review_step", "analyze_research_gaps",
                           "write_report"}
             /\ Len(Results(values')) = Len(Results(values)) + Len(tasks)
             /\ \A i \in DOMAIN tasks :
                   /\ Results(values')[Len(Results(values)) + i]
                         = TaskResult(tasks[i])
                   /\ tasks[i].raised =>
                         /\ TaskResult(tasks[i]).sources = << >>
                         /\ TaskResult(tasks[i]).images = << >>]_vars

\* C28 witness: a round of two tasks is about to complete; the provider
\* raised for the first task, whose result has no source and no image, and
\* the second task has its result as well
C28_Witness ==
    /\ Streaming("perform_search")
    /\ Len(tasks) = 2
    /\ AllDone(tasks)
    /\ tasks[1].raised
    /\ ~tasks[2].raised
    /\ TaskResult(tasks[1]).sources = << >>
    /\ TaskResult(tasks[1]).images = << >>

\* the run is paused before review_step: the checkpoint names review_step as
\* the next node and no stream is about to run it
Paused ==
    /\ next = "review_step"
    /\ ~(pc \in StreamPcs /\ first_tick)

\* the caller answers the prompt in this step (with empty feedback or not)
FeedbackSupplied ==
    /\ pc = "loop"
    /\ pc' \in StreamPcs

\* C30: while the run is paused before review_step and until the caller
\* answers the prompt, nothing changes: the checkpoint (values, next node,
\* pending tasks), the cache rows and the stored reports stay as they are
\* and no search or model call is made, whether the process waits at the
\* prompt, is killed, or run_research is called again
C30_NothingChangesWhilePaused ==
    [][(Paused /\ ~FeedbackSupplied) =>
          UNCHANGED << values, next, tasks, cache, reports, extCalls,
                       searchRounds, counterReturned >>]_vars

\* C30 witness: the run was paused, the process was killed, and a later
\* run_research call found the run as it was and waits at the prompt
C30_Witness ==
    /\ Paused
    /\ pc = "loop"
    /\ calledOn = "pending"
    /\ invocations = 2
    /\ searchRounds >= 1
    /\ tasks = << >>

\* the checkpoint does not contradict a run started with feedback_mode m: a
\* mode it stores is m
StartedWith(m) == StateGet(values, "feedback_mode", m) = m

\* the routing decision after a SEARCH round of the first run_research call
\* of the thread is made
RoutedAfterSearch ==
    /\ invocations = 1
    /\ pc = "stream_new"
    /\ searchRounds = 1
    /\ next \in {"review_step", "analyze_research_gaps", "write_report"}

\* C31: query and mode are fixed when the run is created, so the routing
\* after SEARCH uses the mode the run was started with: whatever
\* feedback_mode the run was started with, in human mode the round is
\* followed by review_step and in automatic mode it is not
C31_RoutingUsesModeOfRun ==
    RoutedAfterSearch =>
        \A m \in Modes :
            StartedWith(m) =>
                /\ m = "human" => next = "review_step"
                /\ m = "auto" => next # "review_step"

\* the nodes the routing decision after a SEARCH round can name
AfterSearch == {"analyze_research_gaps", "review_step", "write_report"}

\* C32: the routing decision after SEARCH is taken only after every task of
\* the batch has finished: the step that leaves perform_search for
\* analyze_research_gaps, review_step or write_report finds every task
\* returned and leaves the result of every task of the batch, in the order
\* of the batch, at the end of search_results; and while one of these nodes
\* is next no task of a batch exists
C32_DecisionAfterAllTasks ==
    [][/\ (next = "perform_search" /\ next' \in AfterSearch) =>
             /\ \A i \in DOMAIN tasks : tasks[i].st = "done"
             /\ Results(values') =
                    Results(values) \o [i \in DOMAIN tasks |-> TaskResult(tasks[i])]
       /\ next' \in AfterSearch => tasks' = << >>]_vars

\* C32 witness: in automatic mode a batch of two tasks is completed, both
\* results are in search_results and analyze_research_gaps is next
C32_Witness ==
    /\ next = "analyze_research_gaps"
    /\ searchRounds = 1
    /\ tasks = << >>
    /\ Len(SerpQueries(values)) = 2
    /\ Len(Results(values)) = 2

\* C33: every element of search_results has a row of (thread_id, its query)
\* in the results table, and the learnings of the row are the learnings of
\* the element
C33_ResultsBackedByCache ==
    \A n \in DOMAIN Results(values) :
        LET element == Results(values)[n]
        IN  /\ << thread_id, element.query >> \in DOMAIN cache
            /\ element.learnings = << cache[<< thread_id, element.query >>].learnings >>


\* C34: once the row of (thread_id, query) exists, its raw_result and its
\* learnings are the same after every later step
C34_CacheEntryNeverChanges ==
    [][\A k \in DOMAIN cache :
          /\ k \in DOMAIN cache'
          /\ cache'[k] = cache[k]]_vars


\* non-empty feedback was typed at the pause of the first invocation and the
\* stream is resumed on generate_feedback_queries
FeedbackAccepted ==
    /\ invocations = 1
    /\ cfg.feedback_mode = "human"
    /\ pc = "stream_fb"
    /\ next = "generate_feedback_queries"
    /\ tasks = << >>

\* the run waits at the prompt before review_step with user_feedback cleared
PausedAgain ==
    /\ pc = "loop"
    /\ next = "review_step"
    /\ StateGet(values, "user_feedback", None) = None

\* C35: in human mode, with no kill and collaborators that always return,
\* non-empty feedback supplied at a pause leads, through
\* generate_feedback_queries and a SEARCH round, to a further pause before
\* review_step with user_feedback cleared
C35_FeedbackLeadsToPause == FeedbackAccepted ~> PausedAgain


\* C36: every normal return of run_research happens with the run DONE and
\* hands back a non-empty final_report: when run_research has returned, no
\* node is left to execute, final_report is set and it is the value returned
C36_ReturnsOnlyWhenDone ==
    outcome = "returned" =>
        /\ next = ""
        /\ Done
        /\ retval # NoText
        /\ retval = FinalReport(values)


\* a raw_result with no source and no image
EmptyRawResult == [sources |-> << >>, images |-> << >>]

\* the row of the query of task i holds a raw_result with no source and no
\* image
EmptyRow(tbl, i) ==
    /\ RowKey(i) \in DOMAIN tbl
    /\ tbl[RowKey(i)].raw_result = json_dumps(EmptyRawResult)

\* C37: a task whose search provider raised stores, when it saves, the row
\* of (thread_id, query) with empty sources and images, and the row is still
\* so once the task has returned; a task of that query whose cache check
\* finds such a row is served from it: it returns at once with the learnings
\* of the row and no source and no image, and no search is made
C37_FailedSearchIsCached ==
    [][\A i \in 1..MaxTasks :
          /\ (Saved(i) /\ tasks[i].raised) => EmptyRow(cache', i)
          /\ (i \in DOMAIN tasks /\ tasks[i].raised /\ tasks[i].st = "done") =>
                EmptyRow(cache, i)
          /\ (CacheChecked(i) /\ EmptyRow(cache, i)) =>
                /\ tasks'[i].st = "done"
                /\ tasks'[i].viaCache
                /\ TaskResult(tasks'[i]).sources = << >>
                /\ TaskResult(tasks'[i]).images = << >>
                /\ TaskResult(tasks'[i]).learnings
                      = << cache[RowKey(i)].learnings >>
                /\ extCalls' = extCalls]_vars

\* C37 witness: the provider raised for the first task, which stored its row
\* and returned; the second task, of the same query, was served from that
\* row with no source and no image, and the query was searched once
C37_Witness ==
    /\ Len(tasks) = 2
    /\ tasks[1].task.query = tasks[2].task.query
    /\ tasks[1].raised
    /\ tasks[1].st = "done"
    /\ ~tasks[1].viaCache
    /\ tasks[2].st = "done"
    /\ tasks[2].viaCache
    /\ TaskResult(tasks[2]).sources = << >>
    /\ TaskResult(tasks[2]).images = << >>
    /\ extCalls[tasks[1].task.query] = 1


\* the ids of the sources collected in search_results
CollectedIds(state) ==
    LET sources == all_sources(state["search_results"])
    IN  {sources[i].id : i \in {j \in DOMAIN sources : "id" \in DOMAIN sources[j]}}

\* the body cites a well-formed id that is the id of no collected source
CitesUnknownId(state, body) ==
    \E n \in DOMAIN uuids(body) : uuids(body)[n] \notin CollectedIds(state)

\* C38: when write_report is the node to run, every body of the writer that
\* cites a well-formed id of no collected source makes write_report raise;
\* and the step in which write_report raises sets no final_report, stores no
\* report and leaves write_report pending, so the run is not DONE
C38_UnknownCitationFails ==
    [][Streaming("write_report") =>
          /\ \A body \in WriterOutputs(values) :
                CitesUnknownId(values, body) =>
                    write_report_result(values, body).error # ""
          /\ (pc' = "down" /\ outcome' = "error") =>
                /\ FinalReport(values') = NoText
                /\ reports' = reports
                /\ thread_id \notin DOMAIN reports'
                /\ next' = "write_report"
                /\ ~Done']_vars

\* C38 witness: the invocation ended in an error with write_report pending,
\* where the writer can return a body citing an id of no collected source,
\* for which write_report raises KeyError; no final_report is set and no
\* report is stored
C38_Witness ==
    /\ pc = "down"
    /\ outcome = "error"
    /\ next = "write_report"
    /\ FinalReport(values) = NoText
    /\ thread_id \notin DOMAIN reports
    /\ \E body \in WriterOutputs(values) :
          /\ CitesUnknownId(values, body)
          /\ write_report_result(values, body).error = "KeyError"

====
